---- MODULE Spec2Model ----
(***************************************************************************)
(* Event-stream batch collation of the event-ssm inference tutorial:       *)
(* event_stream_collate_fn (tutorial_inference.ipynb, lines 161-202).      *)
(*                                                                         *)
(* A batch is a sequence of items (events, label, *aux).  events is a      *)
(* structured array, modelled as a sequence of records [t, x, y, p].       *)
(* One-dimensional numpy arrays are sequences, two-dimensional arrays are  *)
(* sequences of rows.  The float array produced by `timesteps / 1000` is   *)
(* modelled exactly: every element is a pair <<numerator, denominator>>.   *)
(***************************************************************************)
EXTENDS Integers, Sequences, FiniteSets

VARIABLES batch, resolution, pad_unit, no_time_information,
          pc, err, tokens, y, timesteps, lengths, pad_length, result

\* the loader built by event_stream_dataloader and one pass over it
VARIABLES dataset_size, per_device_eval_batch_size, world_size,
          lpc, order, cursor, delivered

collate_vars == <<batch, resolution, pad_unit, no_time_information,
                  pc, err, tokens, y, timesteps, lengths, pad_length, result>>

loader_vars == <<dataset_size, per_device_eval_batch_size, world_size,
                 lpc, order, cursor, delivered>>

\* the online-inference notebook: the for-loop and the jax.lax.scan variant
VARIABLES opc, loop_i, chunk_x, chunk_t, logits, iterations, for_chunks,
          variables, carry, scan_run, scan_k, scan_out

online_vars == <<opc, loop_i, chunk_x, chunk_t, logits, iterations, for_chunks,
                 variables, carry, scan_run, scan_k, scan_out>>

\* two loaders created by the same create_events_*_classification_dataset
\* call: the seed, and per loader its generator and what its passes delivered
VARIABLES seed, rng, twin_orders, twin_batches

twin_vars == <<seed, rng, twin_orders, twin_batches>>

vars == <<collate_vars, loader_vars, online_vars, twin_vars>>

inputs == <<batch, resolution, pad_unit, no_time_information>>

(***************************************************************************)
(* Bounds of the input space.                                              *)
(***************************************************************************)
MaxBatch == 2        \* samples per batch
MaxEvents == 3       \* raw events in one batch, over all its samples
MaxPixelEvents == 2  \* raw events of a sample that varies x, y and polarity
MaxT == 1            \* largest raw timestamp
MaxPadUnit == 2      \* largest pad unit
Width == 2           \* sensor width  (resolution[0])
Height == 2          \* sensor height (resolution[1])
NumClasses == 2      \* labels are 0 .. NumClasses-1
MaxAux == 1          \* extra elements an item may carry after (events, label)
MaxDataset == 4      \* samples in the dataset
MaxPerDevice == 2    \* largest per_device_eval_batch_size
MaxWorldSize == 2    \* largest world_size
MaxSeed == 1         \* largest seed
MaxPasses == 2       \* passes made over one loader

Int32Max == 2147483647   \* largest np.int32

SequenceLength == 262144 \* sequence_length = 2 ** 18
PoolingStride == 16      \* cfg.model.ssm.pooling_stride
NumStages == 2           \* cfg.model.ssm.num_stages
LogitClasses == 10       \* width of one logits row

(***************************************************************************)
(* numpy / python helpers, as the collate function uses them.              *)
(***************************************************************************)
\* ndarray.astype(np.int32): a value of the signed 32-bit range is kept, a
\* value beyond it wraps around by 2^32 (written without the literal 2^32)
AsInt32(v) ==
    IF v > Int32Max THEN ((v - Int32Max) - 1) - Int32Max - 1
    ELSE IF v < (-Int32Max) - 1 THEN ((v + Int32Max) + 1) + Int32Max + 1
    ELSE v

\* e['f'] : the field view of a structured array
FieldT(e) == [j \in 1..Len(e) |-> e[j].t]
FieldX(e) == [j \in 1..Len(e) |-> e[j].x]
FieldY(e) == [j \in 1..Len(e) |-> e[j].y]
FieldP(e) == [j \in 1..Len(e) |-> e[j].p]

\* faulty variant: a[1:], dropping the first element instead of the last
DropLast_first(a) == SubSeq(a, 2, Len(a))

\* a[:-1] : everything but the last element (empty stays empty)
DropLast(a) == SubSeq(a, 1, Len(a) - 1)

\* faulty variant: a[:-1] - a[1:]
Diff_reversed(a) == [j \in 1..(Len(a) - 1) |-> a[j] - a[j + 1]]

\* np.diff(a) : a[1:] - a[:-1]  (length Len(a)-1, empty for Len(a) <= 1)
Diff(a) == [j \in 1..(Len(a) - 1) |-> a[j + 1] - a[j]]

\* np.ones_like(a)
OnesLike(a) == [j \in 1..Len(a) |-> 1]

\* np.prod(resolution)
RECURSIVE Prod(_)
Prod(r) == IF r = <<>> THEN 1 ELSE Head(r) * Prod(Tail(r))

\* lengths.max()
MaxOf(a) == CHOOSE m \in {a[i] : i \in 1..Len(a)} :
                \A i \in 1..Len(a) : a[i] <= m

MinOfSet(S) == CHOOSE m \in S : \A n \in S : m <= n

\* np.pad(e, (0, n), mode='constant', constant_values=c)
Pad(e, n, c) == e \o [j \in 1..n |-> c]

\* arr / 1000 on one element: true division, kept exact as a fraction
TrueDivide(v, d) == <<v, d>>

\* value equality of two fractions
RatEq(a, b) == a[1] * b[2] = b[1] * a[2]

\* lengths[None, ...] : a new leading axis of size 1
NewAxis(a) == [shape |-> <<1>> \o a.shape, data |-> a.data]

(***************************************************************************)
(* The body of event_stream_collate_fn, one definition per statement.      *)
(***************************************************************************)
\* x, y, *z = zip(*batch): zip stops at the shortest item, so z holds as
\* many columns as the item with the fewest extra elements carries
ZLen(b) == MinOfSet({b[i].aux : i \in 1..Len(b)})

\* faulty variant: the batch as the caller holds it if the last event were
\* cut off in place instead of on a view
CallerBatch_trimmed(b) ==
    [i \in 1..Len(b) |-> [b[i] EXCEPT !.events = DropLast(b[i].events)]]

\* the batch as the caller holds it after the call: e[...][:-1] are views
\* that are only read, and np.diff, np.ones_like, astype, np.pad, np.stack
\* and `timesteps / 1000` all allocate their result
CallerBatch(b) == b

\* faulty variant: the leading axis is added for every batch
BatchSizeOne_always(b) == Len(b) >= 1

BatchSizeOne(b) == Len(b) = 1

\* faulty variant: the labels in reverse sample order
StackLabels_reversed(b) == [i \in 1..Len(b) |-> b[Len(b) + 1 - i].label]

\* y = np.stack(y)
StackLabels(b) == [i \in 1..Len(b) |-> b[i].label]

\* faulty variant: np.ones_like(e['t']), one step per raw event
TimestepsOf_untrimmed(b, nti) ==
    IF nti
    THEN [i \in 1..Len(b) |-> OnesLike(FieldT(b[i].events))]
    ELSE [i \in 1..Len(b) |-> Diff(FieldT(b[i].events))]

TimestepsOf(b, nti) ==
    IF nti
    THEN [i \in 1..Len(b) |-> OnesLike(DropLast(FieldT(b[i].events)))]
    ELSE [i \in 1..Len(b) |-> Diff(FieldT(b[i].events))]

\* e['x'][:-1].astype(np.int32)
TokenRow1(e) ==
    LET xs == DropLast(FieldX(e))
    IN  [j \in 1..Len(xs) |-> AsInt32(xs[j])]

\* (e['x'][:-1] * e['y'][:-1]
\*    + np.prod(resolution) * e['p'][:-1].astype(np.int32)).astype(np.int32)
TokenRow2(e, res) ==
    LET xs == DropLast(FieldX(e))
        ys == DropLast(FieldY(e))
        ps == DropLast(FieldP(e))
    IN  [j \in 1..Len(xs) |->
            AsInt32(xs[j] * ys[j] + Prod(res) * AsInt32(ps[j]))]

TokensOf(b, res) ==
    IF Len(res) = 1
    THEN [i \in 1..Len(b) |-> TokenRow1(b[i].events)]
    ELSE [i \in 1..Len(b) |-> TokenRow2(b[i].events, res)]

\* faulty variant: the raw event counts, len(e) for e in x
LengthsOf_raw(ts) == [i \in 1..Len(ts) |-> Len(ts[i]) + 1]

\* np.array([len(e) for e in timesteps], dtype=np.int32)
LengthsOf(ts) == [i \in 1..Len(ts) |-> Len(ts[i])]

\* faulty variant: the trailing + pad_unit is missing
PadLengthOf_floor(lens, pu) == (MaxOf(lens) \div pu) * pu

\* faulty variant: round up to the next multiple, ceil(max / pu) * pu
PadLengthOf_ceil(lens, pu) == ((MaxOf(lens) + pu - 1) \div pu) * pu

\* faulty variant: two pad units are added
PadLengthOf_double(lens, pu) == (MaxOf(lens) \div pu) * pu + 2 * pu

\* (lengths.max() // pad_unit) * pad_unit + pad_unit
PadLengthOf(lens, pu) == (MaxOf(lens) \div pu) * pu + pu

\* faulty variant: tokens padded with 0 like the time steps
PadTokens_zero(toks, pl) ==
    [i \in 1..Len(toks) |-> Pad(toks[i], pl - Len(toks[i]), 0)]

PadTokens(toks, pl) ==
    [i \in 1..Len(toks) |-> Pad(toks[i], pl - Len(toks[i]), -1)]

PadTimesteps(ts, pl) ==
    [i \in 1..Len(ts) |-> Pad(ts[i], pl - Len(ts[i]), 0)]

ToMilliseconds(ts) ==
    [i \in 1..Len(ts) |-> [j \in 1..Len(ts[i]) |-> TrueDivide(ts[i][j], 1000)]]

LengthsArray(lens, one) ==
    LET a == [shape |-> <<Len(lens)>>, data |-> lens]
    IN  IF one THEN NewAxis(a) ELSE a

\* faulty variant: if / else without the raising branch
ResolutionValid_nonempty(res) == Len(res) >= 1

\* the if / elif / else over len(resolution): the else branch raises
ResolutionValid(res) == Len(res) \in {1, 2}

NoArray == [shape |-> <<>>, data |-> <<>>]

Raise(e) ==
    /\ pc' = "raised"
    /\ err' = e
    /\ batch' = batch
    /\ UNCHANGED <<tokens, y, timesteps, lengths, pad_length, result>>

\* return tokens, y, timesteps, lengths
ReturnTuple(tk, lab, ts, ln) == <<tk, lab, ts, ln>>

\* one call of event_stream_collate_fn(batch, resolution, pad_unit,
\* no_time_information)
Collate ==
    /\ pc = "call"
    /\ UNCHANGED <<loader_vars, online_vars, twin_vars>>
    /\ UNCHANGED <<resolution, pad_unit, no_time_information>>
    /\ IF Len(batch) = 0
       THEN Raise("ValueError")          \* x, y, *z = zip(): nothing to unpack
       ELSE IF ZLen(batch) # 0
       THEN Raise("AssertionError")      \* assert len(z) == 0
       ELSE IF ~ResolutionValid(resolution)
       THEN Raise("ValueError")          \* resolution must contain 1 or 2 elements
       ELSE LET ts   == TimestepsOf(batch, no_time_information)
                toks == TokensOf(batch, resolution)
                lens == LengthsOf(ts)
                pl   == PadLengthOf(lens, pad_unit)
            IN  /\ tokens' = PadTokens(toks, pl)
                /\ timesteps' = ToMilliseconds(PadTimesteps(ts, pl))
                /\ y' = StackLabels(batch)
                /\ lengths' = LengthsArray(lens, BatchSizeOne(batch))
                /\ pad_length' = pl
                /\ result' = ReturnTuple(tokens', y', timesteps', lengths')
                /\ batch' = CallerBatch(batch)
                /\ pc' = "returned"
                /\ err' = "none"

(***************************************************************************)
(* Inputs.  The collate function computes time steps from the field t and  *)
(* tokens from the fields x, y, p by separate statements, and it only      *)
(* passes labels through, so the batches are drawn from three families     *)
(* that each vary one group of fields:                                     *)
(*   StreamBatches  any number of samples of any lengths, whose events     *)
(*                  vary the timestamp or the column;                      *)
(*   PixelBatches   one short sample whose events take every (x, y, p);    *)
(*   ItemBatches    samples of two events with every label and every       *)
(*                  number of extra item elements.                         *)
(***************************************************************************)
Event(t, x, yy, p) == [t |-> t, x |-> x, y |-> yy, p |-> p]

Item(e, l, a) == [events |-> e, label |-> l, aux |-> a]

StreamEvents == {Event(t, 0, 0, 0) : t \in 0..MaxT}
                \cup {Event(0, x, 0, 0) : x \in 0..(Width - 1)}

PixelEvents == {Event(0, x, yy, p) : x \in 0..(Width - 1),
                                      yy \in 0..(Height - 1), p \in 0..1}

SeqsUpTo(S, n) == UNION {[1..k -> S] : k \in 0..n}

\* the batches of exactly n samples holding at most k events altogether
RECURSIVE StreamBatchesOf(_, _)
StreamBatchesOf(n, k) ==
    IF n = 0
    THEN {<<>>}
    ELSE UNION {{<<Item(e, 0, 0)>> \o rest :
                    e \in [1..m -> StreamEvents],
                    rest \in StreamBatchesOf(n - 1, k - m)} : m \in 0..k}

StreamBatches == UNION {StreamBatchesOf(n, MaxEvents) : n \in 0..MaxBatch}

PixelBatches == {<<Item(e, 0, 0)>> : e \in SeqsUpTo(PixelEvents, MaxPixelEvents)}

ItemBatches ==
    LET e == <<Event(0, 0, 0, 0), Event(MaxT, 0, 0, 0)>>
        items == {Item(e, l, a) : l \in 0..(NumClasses - 1), a \in 0..MaxAux}
    IN  UNION {[1..n -> items] : n \in 1..MaxBatch}

Batches == StreamBatches \cup PixelBatches \cup ItemBatches

(***************************************************************************)
(* The loader.  event_stream_dataloader hands the dataset to               *)
(* torch.utils.data.DataLoader with shuffle=True and drop_last=False: at   *)
(* the start of a pass the sampler draws a permutation of the sample       *)
(* indices, and the batch sampler cuts it into runs of batch_size indices. *)
(* A sample is identified by its index 1..dataset_size.                    *)
(***************************************************************************)
\* eval_batch_size=per_device_eval_batch_size * world_size
\* faulty variant: the world size is left out
EvalBatchSize_perDevice(pd, ws) == pd

EvalBatchSize(pd, ws) == pd * ws

\* shuffle=True
ShuffleFlag == TRUE

\* faulty variant: drop_last=True
DropLastFlag_true == TRUE

\* drop_last=False
DropLastFlag == FALSE

Permutations(n) ==
    {f \in [1..n -> 1..n] : \A i, j \in 1..n : f[i] = f[j] => i = j}

\* RandomSampler / SequentialSampler
SamplerOrders(n, shuffle) ==
    IF shuffle THEN Permutations(n) ELSE {[i \in 1..n |-> i]}

MinOf2(a, b) == IF a <= b THEN a ELSE b

\* BatchSampler: is there another batch after `c` delivered indices
HasNextBatch(n, c, bsz, drop_last) ==
    IF drop_last THEN c + bsz <= n ELSE c < n

\* BatchSampler: the next run of at most bsz indices
NextBatchIndices(ord, c, bsz) == SubSeq(ord, c + 1, MinOf2(c + bsz, Len(ord)))

\* iter(test_loader)
StartPass ==
    /\ lpc \in {"idle", "exhausted"}
    /\ order' \in SamplerOrders(dataset_size, ShuffleFlag)
    /\ cursor' = 0
    /\ delivered' = <<>>
    /\ lpc' = "iterating"
    /\ UNCHANGED <<dataset_size, per_device_eval_batch_size, world_size>>
    /\ UNCHANGED <<collate_vars, online_vars, twin_vars>>

\* next(iterator) yields a batch
YieldBatch ==
    LET bsz == EvalBatchSize(per_device_eval_batch_size, world_size)
        b   == NextBatchIndices(order, cursor, bsz)
    IN  /\ lpc = "iterating"
        /\ HasNextBatch(dataset_size, cursor, bsz, DropLastFlag)
        /\ delivered' = Append(delivered, b)
        /\ cursor' = cursor + Len(b)
        /\ UNCHANGED <<dataset_size, per_device_eval_batch_size, world_size,
                       lpc, order>>
        /\ UNCHANGED <<collate_vars, online_vars, twin_vars>>

\* next(iterator) raises StopIteration
EndPass ==
    LET bsz == EvalBatchSize(per_device_eval_batch_size, world_size)
    IN  /\ lpc = "iterating"
        /\ ~HasNextBatch(dataset_size, cursor, bsz, DropLastFlag)
        /\ lpc' = "exhausted"
        /\ UNCHANGED <<dataset_size, per_device_eval_batch_size, world_size,
                       order, cursor, delivered>>
        /\ UNCHANGED <<collate_vars, online_vars, twin_vars>>

\* a view of the elements [lo, hi) of the flat array arr
View(arr, lo, hi) == [arr |-> arr, lo |-> lo, hi |-> hi]

\* no loader pair has been created
TwinUnused ==
    /\ seed = 0
    /\ rng = <<>>
    /\ twin_orders = <<>>
    /\ twin_batches = <<>>

\* the online-inference cells have not run
NoView == View("none", 0, 0)

OnlineUnused ==
    /\ opc = "unused"
    /\ loop_i = 0
    /\ chunk_x = NoView
    /\ chunk_t = NoView
    /\ logits = <<>>
    /\ iterations = 0
    /\ for_chunks = <<>>
    /\ variables = "params"
    /\ carry = <<>>
    /\ scan_run = 0
    /\ scan_k = 0
    /\ scan_out = <<>>

LoaderUnused ==
    /\ dataset_size = 0
    /\ per_device_eval_batch_size = 1
    /\ world_size = 1
    /\ lpc = "unused"
    /\ order = <<>>
    /\ cursor = 0
    /\ delivered = <<>>

CollateUnused ==
    /\ batch = <<>>
    /\ resolution = <<Width>>
    /\ pad_unit = 1
    /\ no_time_information = FALSE
    /\ pc = "unused"
    /\ err = "none"
    /\ tokens = <<>>
    /\ y = <<>>
    /\ timesteps = <<>>
    /\ lengths = NoArray
    /\ pad_length = 0
    /\ result = <<>>

LoaderInit ==
    /\ dataset_size \in 1..MaxDataset
    /\ per_device_eval_batch_size \in 1..MaxPerDevice
    /\ world_size \in 1..MaxWorldSize
    /\ lpc = "idle"
    /\ order = <<>>
    /\ cursor = 0
    /\ delivered = <<>>
    /\ CollateUnused
    /\ OnlineUnused
    /\ TwinUnused

LoaderNext == StartPass \/ YieldBatch \/ EndPass

LoaderSpec == LoaderInit /\ [][LoaderNext]_vars

(***************************************************************************)
(* Seeding.  create_events_*_classification_dataset builds a               *)
(* torch.Generator from a seed that is not None and hands it to the        *)
(* DataLoader, whose sampler draws the permutation of each pass from it.   *)
(* A generator is the pair of its seed and the number of draws made from   *)
(* it; None is the empty sequence.  Two loaders made by two such calls     *)
(* with the same arguments over the same dataset are followed pass by      *)
(* pass.                                                                   *)
(***************************************************************************)
\* seed=None
NoSeed == 0 - 1

\* rng = None
NoGenerator == <<>>

\* rng = torch.Generator(); rng.manual_seed(seed)
ManualSeed(sd) == <<sd, 0>>

\* if seed is not None: ... else: rng = None
MakeRng(sd) == IF sd # NoSeed THEN ManualSeed(sd) ELSE NoGenerator

\* faulty variant: the generator is not handed to the DataLoader
LoaderGenerator_default(g) == NoGenerator

\* generator=rng
LoaderGenerator(g) == g

RECURSIVE Factorial(_)
Factorial(n) == IF n = 0 THEN 1 ELSE n * Factorial(n - 1)

RemoveAt(a, k) == SubSeq(a, 1, k - 1) \o SubSeq(a, k + 1, Len(a))

\* the permutation of items numbered k, by repeated selection
RECURSIVE PermOf(_, _)
PermOf(k, items) ==
    IF items = <<>>
    THEN <<>>
    ELSE LET m   == Len(items)
             idx == (k % m) + 1
         IN  <<items[idx]>> \o PermOf(k \div m, RemoveAt(items, idx))

\* torch.randperm(n, generator=g): a fixed function of the generator's
\* state, different for different seeds and draws
RandPerm(g, n) ==
    PermOf((g[1] + g[2] * (MaxSeed + 1)) % Factorial(n), [k \in 1..n |-> k])

\* the generator after a draw
Advance(g) == <<g[1], g[2] + 1>>

\* BatchSampler: all the batches of a pass over the order ord, from cursor c
RECURSIVE CutBatches(_, _, _)
CutBatches(ord, c, bsz) ==
    IF HasNextBatch(Len(ord), c, bsz, DropLastFlag)
    THEN <<NextBatchIndices(ord, c, bsz)>> \o CutBatches(ord, c + bsz, bsz)
    ELSE <<>>

\* `for batch in loader` over loader l of the pair: the sampler draws the
\* order from the loader's generator, or, without one, from a generator it
\* seeds from the global random state
TwinPass(l) ==
    /\ rng # <<>>
    /\ Len(twin_orders[l]) < MaxPasses
    /\ \E entropy \in 0..MaxSeed :
          LET g   == IF rng[l] = NoGenerator
                     THEN ManualSeed(entropy) ELSE rng[l]
              ord == IF ShuffleFlag
                     THEN RandPerm(g, dataset_size)
                     ELSE [k \in 1..dataset_size |-> k]
              bsz == EvalBatchSize(per_device_eval_batch_size, world_size)
          IN  /\ rng' = [rng EXCEPT ![l] = IF rng[l] = NoGenerator
                                           THEN NoGenerator ELSE Advance(g)]
              /\ twin_orders' = [twin_orders EXCEPT ![l] = Append(@, ord)]
              /\ twin_batches' = [twin_batches EXCEPT
                                     ![l] = Append(@, CutBatches(ord, 0, bsz))]
    /\ UNCHANGED seed
    /\ UNCHANGED <<collate_vars, loader_vars, online_vars>>

\* two calls of the same create function with the same arguments
TwinInit ==
    /\ seed \in {NoSeed} \cup 0..MaxSeed
    /\ rng = <<LoaderGenerator(MakeRng(seed)), LoaderGenerator(MakeRng(seed))>>
    /\ twin_orders = <<<<>>, <<>>>>
    /\ twin_batches = <<<<>>, <<>>>>
    /\ dataset_size \in 1..MaxDataset
    /\ per_device_eval_batch_size \in 1..MaxPerDevice
    /\ world_size \in 1..MaxWorldSize
    /\ lpc = "unused"
    /\ order = <<>>
    /\ cursor = 0
    /\ delivered = <<>>
    /\ CollateUnused
    /\ OnlineUnused

TwinNext == TwinPass(1) \/ TwinPass(2)

SeedSpec == TwinInit /\ [][TwinNext]_vars

(***************************************************************************)
(* Online inference (the online-inference notebook).  tokens and           *)
(* timesteps are arrays of sequence_length elements; a slice or a row of   *)
(* one of them is a view, modelled as the half-open index range [lo, hi)   *)
(* it covers in the flat array.  The model is external: an application of  *)
(* it is kept as the term of its arguments.                                *)
(***************************************************************************)
RECURSIVE Pow(_, _)
Pow(b, e) == IF e = 0 THEN 1 ELSE b * Pow(b, e - 1)

\* total_subsampling = cfg.model.ssm.pooling_stride ** cfg.model.ssm.num_stages
TotalSubsampling == Pow(PoolingStride, NumStages)

\* faulty variant: the slice stops one element early
Slice_short(arr, lo, hi, len) ==
    View(arr, MinOf2(lo, len), MinOf2(hi - 1, len))

\* arr[lo:hi] of an array of len elements: the bounds are clipped to len
Slice(arr, lo, hi, len) == View(arr, MinOf2(lo, len), MinOf2(hi, len))

\* number of rows of arr.reshape(-1, cols); 0 - 1 stands for the ValueError
\* raised when len is not a multiple of cols
ReshapeRows(len, cols) == IF len % cols = 0 THEN len \div cols ELSE 0 - 1

\* faulty variant: the rows overlap, each starting one element after the last
RowOf_overlapping(arr, k, cols) == View(arr, k, k + cols)

\* row k (from 0) of arr.reshape(-1, cols), in row-major order
RowOf(arr, k, cols) == View(arr, k * cols, (k + 1) * cols)

\* model.apply(variables, x, t, length, train)
ModelApply(v, xx, tt, length, train) ==
    [variables |-> v, x |-> xx, t |-> tt, length |-> length, train |-> train,
     classes |-> LogitClasses]

\* jit_apply = jax.jit(partial(model.apply, length=total_subsampling, train=False))
JitApply(v, xx, tt) == ModelApply(v, xx, tt, TotalSubsampling, FALSE)

\* faulty variant: the tokens of the step are handed on as the carry
Step_carrying(c, inp) ==
    [carry |-> <<inp[1]>>,
     out |-> ModelApply(variables, inp[1], inp[2], TotalSubsampling, FALSE)]

\* def step(carry, inputs): the carry is a pytree, held as the sequence of
\* its leaves, so None is the empty sequence
Step(c, inp) ==
    [carry |-> <<>>,
     out |-> ModelApply(variables, inp[1], inp[2], TotalSubsampling, FALSE)]

\* one iteration of `for i in range(0, sequence_length, total_subsampling)`
ForIter ==
    /\ opc = "for"
    /\ loop_i < SequenceLength
    /\ chunk_x' = Slice("tokens", loop_i, loop_i + TotalSubsampling, SequenceLength)
    /\ chunk_t' = Slice("timesteps", loop_i, loop_i + TotalSubsampling, SequenceLength)
    /\ logits' = <<JitApply(variables, chunk_x', chunk_t')>>
    /\ loop_i' = loop_i + TotalSubsampling
    /\ iterations' = iterations + 1
    /\ for_chunks' = Append(for_chunks, chunk_x')
    /\ UNCHANGED <<opc, variables, carry, scan_run, scan_k,
                   scan_out>>
    /\ UNCHANGED <<collate_vars, loader_vars, twin_vars>>

\* the range is exhausted
ForEnd ==
    /\ opc = "for"
    /\ loop_i >= SequenceLength
    /\ opc' = "reshape"
    /\ UNCHANGED <<loop_i, chunk_x, chunk_t, logits, iterations, for_chunks,
                   variables, carry, scan_run, scan_k, scan_out>>
    /\ UNCHANGED <<collate_vars, loader_vars, twin_vars>>

\* tokens = tokens.reshape(-1, total_subsampling), the same for timesteps
Reshape ==
    /\ opc = "reshape"
    /\ opc' = IF ReshapeRows(SequenceLength, TotalSubsampling) < 0
              THEN "raised" ELSE "reshaped"
    /\ UNCHANGED <<loop_i, chunk_x, chunk_t, logits, iterations, for_chunks,
                   variables, carry, scan_run, scan_k, scan_out>>
    /\ UNCHANGED <<collate_vars, loader_vars, twin_vars>>

\* a call of jax.lax.scan(step, init=None, xs=(tokens, timesteps)): the
\* first compiles, the second is timed
ScanStart ==
    /\ opc \in {"reshaped", "measure"}
    /\ opc' = "scan"
    /\ carry' = <<>>
    /\ scan_run' = scan_run + 1
    /\ scan_k' = 0
    /\ scan_out' = <<>>
    /\ UNCHANGED <<loop_i, chunk_x, chunk_t, logits, iterations, for_chunks,
                   variables>>
    /\ UNCHANGED <<collate_vars, loader_vars, twin_vars>>

\* jax.lax.scan applies step to the rows of xs in order and stacks the
\* outputs
ScanStep ==
    /\ opc = "scan"
    /\ scan_k < ReshapeRows(SequenceLength, TotalSubsampling)
    /\ LET r == Step(carry, <<RowOf("tokens", scan_k, TotalSubsampling),
                              RowOf("timesteps", scan_k, TotalSubsampling)>>)
       IN  /\ carry' = r.carry
           /\ scan_out' = Append(scan_out, r.out)
    /\ scan_k' = scan_k + 1
    /\ UNCHANGED <<opc, loop_i, chunk_x, chunk_t, logits, iterations,
                   for_chunks, variables, scan_run>>
    /\ UNCHANGED <<collate_vars, loader_vars, twin_vars>>

\* the scan returns (carry, stacked outputs): the first call binds the pair
\* to logits, the second is unpacked by `_, logits = ...`
ScanEnd ==
    /\ opc = "scan"
    /\ scan_k >= ReshapeRows(SequenceLength, TotalSubsampling)
    /\ logits' = IF scan_run = 1 THEN <<carry, scan_out>> ELSE scan_out
    /\ opc' = IF scan_run = 1 THEN "measure" ELSE "done"
    /\ UNCHANGED <<loop_i, chunk_x, chunk_t, iterations, for_chunks,
                   variables, carry, scan_run, scan_k, scan_out>>
    /\ UNCHANGED <<collate_vars, loader_vars, twin_vars>>

OnlineInit ==
    /\ opc = "for"
    /\ loop_i = 0
    /\ chunk_x = View("x", 0, TotalSubsampling)
    /\ chunk_t = View("t", 0, TotalSubsampling)
    /\ logits = <<>>
    /\ iterations = 0
    /\ for_chunks = <<>>
    /\ variables = "params"
    /\ carry = <<>>
    /\ scan_run = 0
    /\ scan_k = 0
    /\ scan_out = <<>>
    /\ CollateUnused
    /\ LoaderUnused
    /\ TwinUnused

OnlineNext ==
    ForIter \/ ForEnd \/ Reshape \/ ScanStart \/ ScanStep \/ ScanEnd

OnlineSpec == OnlineInit /\ [][OnlineNext]_vars

Resolutions == {<<Width>>, <<Width, Height>>, <<Width, Height, 2>>}

\* new_sensor_size = (128 // downsampling, 128 // downsampling, 2), of which
\* the collate function is given new_sensor_size[:2] as its resolution
NewSensorSize(res) == res \o <<2>>

\* faulty variant: the polarity factor of the sensor size is left out
NumEmbeddings_planar(res) == Prod(res)

\* num_embeddings of the Data object returned with the loader: the number of
\* channels for SHD, whose collate function has resolution (channels,), and
\* np.prod(new_sensor_size) for DVS Gesture
NumEmbeddings(res) ==
    IF Len(res) = 1 THEN res[1] ELSE Prod(NewSensorSize(res))

Init ==
    /\ batch \in Batches
    /\ resolution \in Resolutions
    /\ pad_unit \in 1..MaxPadUnit
    /\ no_time_information \in BOOLEAN
    /\ pc = "call"
    /\ err = "none"
    /\ tokens = <<>>
    /\ y = <<>>
    /\ timesteps = <<>>
    /\ lengths = NoArray
    /\ pad_length = 0
    /\ result = <<>>
    /\ LoaderUnused
    /\ OnlineUnused
    /\ TwinUnused

Next == Collate

Spec == Init /\ [][Next]_vars

(***************************************************************************)
(* Vocabulary of the properties.                                           *)
(***************************************************************************)
Returned == pc = "returned"

BatchSize == Len(batch)

\* number of raw events of sample i
RawLen(i) == Len(batch[i].events)

\* the returned lengths entry of sample i, whatever the shape of lengths
OutLen(i) == lengths.data[i]

\* an array of rows has shape (r, c)
HasShape(a, r, c) == Len(a) = r /\ \A i \in 1..Len(a) : Len(a[i]) = c

\* number of columns of the returned tokens array
Cols == Len(tokens[1])

MaxOutLen == MaxOf(lengths.data)

CeilDiv(a, b) == (a + b - 1) \div b

Zero == <<0, 1>>
One == <<1, 1>>

(***************************************************************************)
(* C1: tokens and timesteps are returned with the same shape               *)
(* (batch_size, pad_length); pad_length is a multiple of pad_unit and is   *)
(* at least the largest per-sample length (raw or returned) of the batch.  *)
(***************************************************************************)
C1_SameShape ==
    (Returned /\ pad_unit >= 1) =>
        /\ BatchSize >= 1
        /\ HasShape(tokens, BatchSize, pad_length)
        /\ HasShape(timesteps, BatchSize, pad_length)
        /\ pad_length % pad_unit = 0
        /\ \A i \in 1..BatchSize :
              pad_length >= OutLen(i) /\ pad_length >= RawLen(i)

C1_Witness ==
    /\ Returned
    /\ BatchSize = 2
    /\ RawLen(1) = 3
    /\ RawLen(2) = 0
    /\ pad_unit = 2
    /\ pad_length = 4

(***************************************************************************)
(* C2 as stated: the pad length is ceil(max_len / pad_unit) * pad_unit.    *)
(***************************************************************************)
C2_CeilPadLength ==
    Returned => Cols = CeilDiv(MaxOutLen, pad_unit) * pad_unit

(***************************************************************************)
(* C2 amended: the pad length is the smallest multiple of pad_unit that is *)
(* strictly greater than max_len; it is the ceiling formula exactly when   *)
(* max_len is not a multiple of pad_unit, and one pad unit more otherwise. *)
(***************************************************************************)
C2_NextMultipleAbove ==
    Returned =>
        /\ Cols % pad_unit = 0
        /\ Cols > MaxOutLen
        /\ Cols - pad_unit <= MaxOutLen
        /\ Cols = pad_length
        /\ (MaxOutLen % pad_unit # 0
               => Cols = CeilDiv(MaxOutLen, pad_unit) * pad_unit)
        /\ (MaxOutLen % pad_unit = 0
               => Cols = CeilDiv(MaxOutLen, pad_unit) * pad_unit + pad_unit)

C2_Witness ==
    /\ Returned
    /\ pad_unit = 2
    /\ MaxOutLen = 2
    /\ Cols = 4

(***************************************************************************)
(* C3: every position of a row at or beyond the sample's returned length   *)
(* holds -1 in tokens and 0 in timesteps.                                  *)
(***************************************************************************)
C3_PaddingValues ==
    Returned =>
        \A i \in 1..BatchSize : \A j \in (OutLen(i) + 1)..pad_length :
            /\ tokens[i][j] = -1
            /\ RatEq(timesteps[i][j], Zero)

C3_Witness ==
    /\ Returned
    /\ BatchSize = 2
    /\ OutLen(1) = 1
    /\ OutLen(2) = 0
    /\ pad_length = 2
    /\ tokens[1][2] = -1
    /\ tokens[1][1] # -1

(***************************************************************************)
(* C4 as stated: lengths[i] = len(events[i]) - 1 for every sample,         *)
(* whatever its number of events.                                          *)
(***************************************************************************)
C4_LengthIsRawMinusOne ==
    Returned => \A i \in 1..BatchSize : OutLen(i) = RawLen(i) - 1

(***************************************************************************)
(* C4 amended: lengths[i] = len(events[i]) - 1 for every sample with at    *)
(* least one event and 0 for a sample without events, in both time modes.  *)
(***************************************************************************)
C4_LengthIsRawMinusOneOrZero ==
    Returned =>
        \A i \in 1..BatchSize :
            /\ (RawLen(i) >= 1 => OutLen(i) = RawLen(i) - 1)
            /\ (RawLen(i) = 0 => OutLen(i) = 0)

C4_Witness ==
    /\ Returned
    /\ no_time_information
    /\ BatchSize = 2
    /\ RawLen(1) = 0
    /\ OutLen(1) = 0
    /\ RawLen(2) = 3
    /\ OutLen(2) = 2

(***************************************************************************)
(* C5: with a resolution (width, height), every non-padded token is        *)
(* x + width*y + width*height*polarity of the event at its position.       *)
(***************************************************************************)
C5_TokenEncoding ==
    (Returned /\ Len(resolution) = 2) =>
        \A i \in 1..BatchSize : \A j \in 1..OutLen(i) :
            LET e == batch[i].events[j]
            IN  tokens[i][j] = e.x + resolution[1] * e.y
                               + resolution[1] * resolution[2] * e.p

(***************************************************************************)
(* C6: with a resolution of length other than 1 or 2 the call raises and   *)
(* returns no arrays, for every batch.                                     *)
(***************************************************************************)
C6_BadResolutionRaises ==
    (pc # "call" /\ Len(resolution) \notin {1, 2}) =>
        /\ pc = "raised"
        /\ err \in {"ValueError", "AssertionError"}
        /\ tokens = <<>>
        /\ timesteps = <<>>
        /\ y = <<>>
        /\ lengths = NoArray

C6_Witness ==
    /\ pc = "raised"
    /\ err = "ValueError"
    /\ Len(resolution) = 3
    /\ BatchSize = 2
    /\ ZLen(batch) = 0

(***************************************************************************)
(* C7: a batch of one sample returns lengths with shape (1, 1); a batch of *)
(* two or more samples returns lengths with shape (batch_size,).           *)
(***************************************************************************)
C7_LengthsShape ==
    Returned =>
        /\ (BatchSize = 1 => lengths.shape = <<1, 1>>)
        /\ (BatchSize >= 2 => lengths.shape = <<BatchSize>>)
        /\ Len(lengths.data) = BatchSize

C7_Witness ==
    /\ Returned
    /\ BatchSize = 1
    /\ lengths.shape = <<1, 1>>
    /\ lengths.data = <<2>>

(***************************************************************************)
(* C8: with time information, the non-padded timestep at position j of     *)
(* sample i is (t[j+1] - t[j]) / 1000 for the raw timestamps t of sample i.*)
(***************************************************************************)
C8_TimestepIsDelta ==
    (Returned /\ ~no_time_information) =>
        \A i \in 1..BatchSize : \A j \in 1..OutLen(i) :
            LET t == FieldT(batch[i].events)
            IN  RatEq(timesteps[i][j], <<t[j + 1] - t[j], 1000>>)

C8_Witness ==
    /\ Returned
    /\ ~no_time_information
    /\ BatchSize = 1
    /\ FieldT(batch[1].events) = <<0, 1, 0>>
    /\ timesteps[1][1] = <<1, 1000>>
    /\ timesteps[1][2] = <<-1, 1000>>

(***************************************************************************)
(* C9: without time information every non-padded timestep is the          *)
(* constant 1.                                                             *)
(***************************************************************************)
C9_ConstantOne ==
    (Returned /\ no_time_information) =>
        \A i \in 1..BatchSize : \A j \in 1..OutLen(i) :
            RatEq(timesteps[i][j], One)

(***************************************************************************)
(* C10: of a sample with n >= 1 events exactly the last one is dropped and *)
(* the others keep their order: positions 0..n-2 hold the tokens of events *)
(* 0..n-2, position n-1 is padding, a token is determined by the event at  *)
(* its position, and with a resolution of length 1 it is the event's x.    *)
(***************************************************************************)
C10_DropsLastKeepsOrder ==
    Returned =>
        \A i \in 1..BatchSize :
            RawLen(i) >= 1 =>
                /\ OutLen(i) = RawLen(i) - 1
                /\ tokens[i][RawLen(i)] = -1
                /\ \A j \in 1..(RawLen(i) - 1) :
                      /\ tokens[i][j] >= 0
                      /\ Len(resolution) = 1 =>
                            tokens[i][j] = batch[i].events[j].x
                      /\ \A k \in 1..BatchSize : \A l \in 1..(RawLen(k) - 1) :
                            LET a == batch[i].events[j]
                                b == batch[k].events[l]
                            IN  (a.x = b.x /\ a.y = b.y /\ a.p = b.p)
                                    => tokens[i][j] = tokens[k][l]

C10_Witness ==
    /\ Returned
    /\ Len(resolution) = 1
    /\ BatchSize = 1
    /\ FieldX(batch[1].events) = <<1, 0, 1>>
    /\ tokens[1][1] = 1
    /\ tokens[1][2] = 0
    /\ tokens[1][3] = -1

(***************************************************************************)
(* C11: the call returns the 4-tuple (tokens, labels, timesteps, lengths)  *)
(* in that order; row i of each of the four belongs to sample i of the     *)
(* batch, and the labels are the labels of the samples, unchanged.         *)
(***************************************************************************)
C11_TupleInSampleOrder ==
    Returned =>
        /\ Len(result) = 4
        /\ result[1] = tokens
        /\ result[3] = timesteps
        /\ result[4] = lengths
        /\ Len(result[1]) = BatchSize
        /\ Len(result[3]) = BatchSize
        /\ result[2] = [i \in 1..BatchSize |-> batch[i].label]
        /\ result[4].data =
              [i \in 1..BatchSize |->
                  IF RawLen(i) = 0 THEN 0 ELSE RawLen(i) - 1]
        /\ \A i \in 1..BatchSize : \A j \in 1..(RawLen(i) - 1) :
              /\ Len(resolution) = 1 =>
                    result[1][i][j] = batch[i].events[j].x
              /\ ~no_time_information =>
                    RatEq(result[3][i][j],
                          <<batch[i].events[j + 1].t - batch[i].events[j].t,
                            1000>>)

C11_Witness ==
    /\ Returned
    /\ BatchSize = 2
    /\ batch[1].label = 0
    /\ batch[2].label = 1
    /\ result[2] = <<0, 1>>

(***************************************************************************)
(* C12: if any item of the batch carries elements beyond (events, label),  *)
(* the call fails at its assertion and produces no output.                 *)
(***************************************************************************)
C12_AnyAuxFailsAssertion ==
    (pc # "call" /\ \E i \in 1..BatchSize : batch[i].aux > 0) =>
        /\ pc = "raised"
        /\ err = "AssertionError"
        /\ result = <<>>

(***************************************************************************)
(* C15: the call leaves its inputs as they were, whether it returns or     *)
(* raises: timestamps, coordinates, polarity and label of every sample.    *)
(***************************************************************************)
C15_InputsUnchanged ==
    [][batch' = batch]_vars

C15_Witness ==
    /\ Returned
    /\ BatchSize = 2
    /\ RawLen(1) = 2
    /\ batch[1].label = 1
    /\ OutLen(1) = 1

(***************************************************************************)
(* C16: the longest sample gets at least one and at most pad_unit padded   *)
(* positions, 1 <= pad_length - max(lengths) <= pad_unit, so every row of  *)
(* tokens ends with a -1.                                                  *)
(***************************************************************************)
C16_PadSlack ==
    Returned =>
        /\ 1 <= pad_length - MaxOutLen
        /\ pad_length - MaxOutLen <= pad_unit
        /\ \A i \in 1..BatchSize :
              /\ Len(tokens[i]) >= 1
              /\ tokens[i][Len(tokens[i])] = -1

C16_Witness ==
    /\ Returned
    /\ BatchSize = 2
    /\ pad_unit = 2
    /\ MaxOutLen = 1
    /\ pad_length = 2

(***************************************************************************)
(* C20: every returned length satisfies 0 <= lengths[i] < pad_length; a    *)
(* sample with zero or one raw events has length 0 and a fully padded row. *)
(***************************************************************************)
C20_LengthsInRange ==
    Returned =>
        \A i \in 1..BatchSize :
            /\ 0 <= OutLen(i)
            /\ OutLen(i) < pad_length
            /\ RawLen(i) <= 1 =>
                  /\ OutLen(i) = 0
                  /\ \A j \in 1..pad_length :
                        /\ tokens[i][j] = -1
                        /\ RatEq(timesteps[i][j], Zero)

C20_Witness ==
    /\ Returned
    /\ no_time_information
    /\ BatchSize = 2
    /\ RawLen(1) = 1
    /\ RawLen(2) = 0
    /\ OutLen(1) = 0
    /\ OutLen(2) = 0

(***************************************************************************)
(* Vocabulary of the loader properties.                                    *)
(***************************************************************************)
\* how many times sample s has been delivered in the current pass
TimesDelivered(s) ==
    Cardinality({p \in {<<b, k>> : b \in 1..Len(delivered), k \in 1..MaxDataset + 1} :
                    p[2] <= Len(delivered[p[1]]) /\ delivered[p[1]][p[2]] = s})

(***************************************************************************)
(* C13: in one full pass over the loader every sample of the dataset is    *)
(* delivered in exactly one batch; none is dropped, none delivered twice.  *)
(***************************************************************************)
C13_EverySampleOnce ==
    /\ \A s \in 1..dataset_size : TimesDelivered(s) <= 1
    /\ lpc = "exhausted" => \A s \in 1..dataset_size : TimesDelivered(s) = 1

C13_Witness ==
    /\ lpc = "exhausted"
    /\ dataset_size = 3
    /\ per_device_eval_batch_size * world_size = 2
    /\ delivered = <<<<2, 3>>, <<1>>>>

(***************************************************************************)
(* C14 as stated: every batch the loader yields holds exactly              *)
(* per_device_eval_batch_size * world_size samples, the last one included. *)
(***************************************************************************)
C14_EveryBatchFull ==
    \A b \in 1..Len(delivered) :
        Len(delivered[b]) = per_device_eval_batch_size * world_size

(***************************************************************************)
(* C14 amended: every batch but the last of a pass holds exactly           *)
(* per_device_eval_batch_size * world_size samples; the last one holds the *)
(* remaining dataset_size mod eval_batch_size samples when that is not 0.  *)
(***************************************************************************)
C14_AllButLastFull ==
    LET bsz == per_device_eval_batch_size * world_size
        n   == Len(delivered)
    IN  /\ \A b \in 1..n :
              /\ 1 <= Len(delivered[b])
              /\ Len(delivered[b]) <= bsz
              /\ (b < n \/ cursor < dataset_size)
                    => Len(delivered[b]) = bsz
        /\ lpc = "exhausted" =>
              /\ n = (dataset_size + bsz - 1) \div bsz
              /\ Len(delivered[n]) =
                    IF dataset_size % bsz = 0 THEN bsz ELSE dataset_size % bsz

C14_Witness ==
    /\ lpc = "exhausted"
    /\ dataset_size = 3
    /\ per_device_eval_batch_size = 1
    /\ world_size = 2
    /\ Len(delivered) = 2
    /\ Len(delivered[1]) = 2
    /\ Len(delivered[2]) = 1

(***************************************************************************)
(* Vocabulary of the online-inference properties.                          *)
(***************************************************************************)
\* the for-loop has run to its end
ForDone == opc \notin {"for", "unused"}

\* the chunk the for-loop slices at offset (n-1) * S
ChunkAt(arr, n) ==
    View(arr, (n - 1) * TotalSubsampling, n * TotalSubsampling)

(***************************************************************************)
(* C17: the for-loop cuts the token sequence into consecutive              *)
(* non-overlapping chunks at offsets 0, S, 2S, ...; every event is fed     *)
(* once and in order, every chunk holds exactly S = total_subsampling      *)
(* events, and the loop runs sequence_length // total_subsampling times.   *)
(***************************************************************************)
C17_ForLoopPartition ==
    /\ iterations = Len(for_chunks)
    /\ \A n \in 1..Len(for_chunks) :
          /\ for_chunks[n].arr = "tokens"
          /\ for_chunks[n].lo = (n - 1) * TotalSubsampling
          /\ for_chunks[n].hi - for_chunks[n].lo = TotalSubsampling
          /\ n > 1 => for_chunks[n].lo = for_chunks[n - 1].hi
    /\ opc = "for" /\ iterations > 0 =>
          /\ chunk_x = for_chunks[iterations]
          /\ chunk_t = [chunk_x EXCEPT !.arr = "timesteps"]
          /\ logits[1].length = chunk_x.hi - chunk_x.lo
    /\ ForDone =>
          /\ iterations = SequenceLength \div TotalSubsampling
          /\ for_chunks[iterations].hi = SequenceLength

C17_Witness ==
    /\ opc = "reshape"
    /\ iterations = 1024
    /\ for_chunks[1] = View("tokens", 0, 256)
    /\ for_chunks[1024] = View("tokens", 261888, 262144)

(***************************************************************************)
(* C18: the scan processes the chunks of the for-loop: row k of            *)
(* tokens.reshape(-1, S), and of timesteps, is the slice [k*S, (k+1)*S),   *)
(* the rows are visited in increasing k, and one logits row is emitted per *)
(* chunk, in chunk order: sequence_length / S rows in the end.             *)
(***************************************************************************)
C18_ScanSameChunks ==
    /\ opc \in {"scan", "measure", "done"} =>
          /\ scan_k = Len(scan_out)
          /\ Len(scan_out) <= Len(for_chunks)
          /\ \A k \in 1..Len(scan_out) :
                /\ scan_out[k].x = for_chunks[k]
                /\ scan_out[k].t = [for_chunks[k] EXCEPT !.arr = "timesteps"]
                /\ scan_out[k].classes = LogitClasses
    /\ opc = "measure" =>
          /\ Len(logits[2]) * TotalSubsampling = SequenceLength
          /\ Len(logits[2]) = Len(for_chunks)
    /\ opc = "done" =>
          /\ Len(logits) * TotalSubsampling = SequenceLength
          /\ Len(logits) = Len(for_chunks)
          /\ logits = scan_out

C18_Witness ==
    /\ opc = "done"
    /\ Len(logits) = 1024
    /\ logits[1024].x = View("tokens", 261888, 262144)
    /\ logits[1024].classes = 10

(***************************************************************************)
(* C19: the scan carries no state between chunks: the carry is None before *)
(* and after every step, the model variables are never updated, and the    *)
(* logits of chunk k are computed from the tokens and timesteps of chunk k *)
(* alone.                                                                  *)
(***************************************************************************)
C19_NoCarriedState ==
    opc \in {"scan", "measure", "done"} =>
        /\ carry = <<>>
        /\ opc = "measure" => logits[1] = <<>>
        /\ variables = "params"
        /\ \A k \in 1..Len(scan_out) :
              scan_out[k] = ModelApply("params", ChunkAt("tokens", k),
                                       ChunkAt("timesteps", k),
                                       TotalSubsampling, FALSE)

C19_Witness ==
    /\ opc = "scan"
    /\ scan_run = 2
    /\ scan_k = 2
    /\ carry = <<>>
    /\ Len(scan_out) = 2

(***************************************************************************)
(* Vocabulary of the token-range properties.                               *)
(***************************************************************************)
\* event e lies on the sensor described by res, with polarity 0 or 1
InRange(e, res) ==
    /\ 0 <= e.x /\ e.x < res[1]
    /\ Len(res) = 2 => (0 <= e.y /\ e.y < res[2])
    /\ e.p \in {0, 1}

(***************************************************************************)
(* C21 as stated: with a resolution of length 2 the token encoding is      *)
(* injective on in-range events: two encoded events that differ in x, y or *)
(* polarity receive different tokens.                                      *)
(***************************************************************************)
C21_TokenInjective ==
    (Returned /\ Len(resolution) = 2) =>
        \A i, k \in 1..BatchSize :
            \A j \in 1..OutLen(i) : \A l \in 1..OutLen(k) :
                LET e == batch[i].events[j]
                    f == batch[k].events[l]
                IN  (/\ InRange(e, resolution)
                     /\ InRange(f, resolution)
                     /\ <<e.x, e.y, e.p>> # <<f.x, f.y, f.p>>)
                    => tokens[i][j] # tokens[k][l]

\* number of entries of row i of the returned tokens that are not the
\* padding sentinel
NonSentinel(i) == Cardinality({j \in 1..Len(tokens[i]) : tokens[i][j] # -1})

(***************************************************************************)
(* C22: for in-range events every non-padded token lies in                 *)
(* [0, num_embeddings) of the Data object returned with the loader, so a   *)
(* valid token is never the padding sentinel -1, and lengths[i] is the     *)
(* number of non-sentinel tokens of row i.                                 *)
(***************************************************************************)
C22_TokensInEmbeddingRange ==
    (/\ Returned
     /\ \A i \in 1..BatchSize : \A j \in 1..RawLen(i) :
           InRange(batch[i].events[j], resolution)) =>
        \A i \in 1..BatchSize :
            /\ \A j \in 1..OutLen(i) :
                  /\ 0 <= tokens[i][j]
                  /\ tokens[i][j] < NumEmbeddings(resolution)
                  /\ tokens[i][j] # -1
            /\ OutLen(i) = NonSentinel(i)

C22_Witness ==
    /\ Returned
    /\ resolution = <<Width, Height>>
    /\ BatchSize = 1
    /\ OutLen(1) = 1
    /\ batch[1].events[1] = Event(0, Width - 1, Height - 1, 1)
    /\ tokens[1][1] = (Width - 1) * (Height - 1) + Width * Height
    /\ tokens[1][2] = -1
    /\ NonSentinel(1) = 1

(***************************************************************************)
(* C23: two loaders created by the same function with the same seed that   *)
(* is not None over the same dataset deliver, pass by pass, the samples in *)
(* the same shuffled order and so the same sequence of batches; with seed  *)
(* None neither loader is given a generator.                               *)
(***************************************************************************)
C23_SameSeedSameOrder ==
    rng # <<>> =>
        /\ seed # NoSeed =>
              \A k \in 1..MinOf2(Len(twin_orders[1]), Len(twin_orders[2])) :
                  /\ twin_orders[1][k] = twin_orders[2][k]
                  /\ twin_batches[1][k] = twin_batches[2][k]
        /\ seed = NoSeed => (rng[1] = NoGenerator /\ rng[2] = NoGenerator)

C23_Witness ==
    /\ seed = 1
    /\ dataset_size = 3
    /\ per_device_eval_batch_size * world_size = 2
    /\ Len(twin_orders[1]) >= 2
    /\ Len(twin_orders[2]) >= 2
    /\ twin_orders[1][1] = <<2, 1, 3>>
    /\ twin_orders[2][1] = <<2, 1, 3>>
    /\ twin_batches[2][1] = <<<<2, 1>>, <<3>>>>
    /\ twin_orders[1][2] # twin_orders[1][1]

====
